---- MODULE Spec2Model ----
(***************************************************************************)
(* Synchronization, packaging and version-retention engine of Dora-OSG:    *)
(* SyncService (SyncAll / syncRepo), the SQLite metadata store, the zip    *)
(* directory and the API's response cache.                                  *)
(***************************************************************************)
EXTENDS Integers, Sequences, FiniteSets, TLC

(* ------------------------------------------------------------------ *)
(* Bounds of the model                                                  *)
(* ------------------------------------------------------------------ *)
\* distinct commits a remote may ever show (per repository)
MaxCommits == 4
\* distinct non-empty tags a remote may ever show (per repository)
MaxTags == 4
\* remote changes (pushes / tag moves) fetched after the clone, with two
\* repositories and two callers (Spec)
MaxPushes == 0
\* remote changes with one repository and one caller (SpecSeq)
MaxPushesSeq == 3
\* failures of collaborators (git, zip, file system, store) in Spec
MaxFaults == 1
\* failures of collaborators in SpecSeq
MaxFaultsSeq == 1
\* remote changes with one repository and two callers (SpecRace)
MaxPushesRace == 1
\* remote changes with one repository, one caller and no failure (SpecLong)
MaxPushesLong == 4
\* remote changes with one repository, one caller and a reader (SpecApi)
MaxPushesApi == 1
\* failures of collaborators in SpecApi
MaxFaultsApi == 1
\* failures of collaborators in SpecRace
MaxFaultsRace == 2
\* failures injected in the runs checked for termination
MaxFaultsLive == 0
\* the ports a configuration file may name
MaxPort == 2

(* ------------------------------------------------------------------ *)
(* Configuration and value spaces                                       *)
(* ------------------------------------------------------------------ *)
\* cfg.Repos: names of the tracked repositories
RepoNames == {"A", "B"}
\* the goroutines that call SyncAll: the ticker loop of main and the
\* goroutine started by POST /admin/sync
Callers == {"timer", "admin"}

\* the empty tag "" (no tag object points at HEAD; also "no history")
NoTag == 0
\* the empty commit hash "" (latestCommitHash when there is no history)
NoHash == <<0, 0>>
\* a commit hash: its first 7 characters and the remaining 33
Hash(n) == <<n, n>>
\* commitHash[:7]
Short(h) == h[1]
\* fmt.Sprintf("%s-%s.zip", r.Name, commitHash[:7])
ZipFileName(name, h) == <<name, Short(h)>>
\* zip.GetFileSize of the archive built from the tree at commit h
SizeOf(h) == h[2] + h[2]

\* no commit, no tag
NoHead == [commit |-> NoHash, tag |-> NoTag]

\* the zero value of model.DBRepo: no row in table repos
NoRepoRow ==
    [id |-> 0, tag |-> NoTag, commitHash |-> NoHash, zipFile |-> <<"", 0>>,
     size |-> 0, lastSync |-> 0]

VARIABLES
    boot,        \* main and package config: the file, once, config, the error returned
    repos,       \* SyncService.repos: the names of the tracked repositories
    workdir,     \* per repository: HEAD and the tag on it in <storage>/repos/<name>
    seen,        \* per repository: how many commits / tags the remote has shown
    pushes,      \* remote changes left to be fetched
    faults,      \* injected failures left
    clock,       \* time.Now(), as each repository's rows and files see it
    files,       \* names of the files in <storage>/zips
    dbRepos,     \* table repos, by name
    dbVersions,  \* table versions, by id
    plv,         \* table package_list_versions, by id: the version column
    mu,          \* SyncService.mu: [writer, readers]
    cache,       \* API.cache
    amu,         \* API.mu: the caller whose UpdateCache holds it, or NoCaller
    ver,         \* per SyncAll call: the local variable version of UpdateCache
    resp,        \* what the last GET of the read API answered
    trig,        \* what the last POST /admin/sync answered
    callPc,      \* per SyncAll caller: where it is
    pc,          \* per pipeline goroutine (caller, repository): where it is
    loc,         \* per pipeline goroutine: the locals of syncRepo
    res,         \* per pipeline goroutine: what syncRepo returned
    errChan,     \* per SyncAll call: errChan
    hasChanges,  \* per SyncAll call: hasChanges
    ret,         \* per SyncAll call: what SyncAll returned
    bumps,       \* per SyncAll call: successful IncrementPackageListVersion calls
    cbs,         \* per SyncAll call: invocations of onSync
    hist         \* per repository: a record of its pipelines so far (NoHist)

vars ==
    <<boot, repos, workdir, seen, pushes, faults, clock, files, dbRepos, dbVersions,
      plv, mu, cache, amu, ver, resp, trig, callPc, pc, loc, res, errChan,
      hasChanges, ret, bumps, cbs, hist>>

(* ------------------------------------------------------------------ *)
(* Metadata store (SQLiteStore)                                         *)
(* ------------------------------------------------------------------ *)
Max(S) == CHOOSE x \in S : \A y \in S : y <= x

\* SELECT * FROM repos WHERE name = ? : the row, or sql.ErrNoRows
GetRepoByName(tbl, name) == tbl[name]

\* id of the row INSERT INTO repos creates (AUTOINCREMENT)
NextRepoId(tbl) == Max({0} \cup {tbl[n].id : n \in DOMAIN tbl}) + 1

\* INSERT INTO repos ... ON CONFLICT(name) DO UPDATE ... RETURNING id
UpsertRepoId(tbl, name) ==
    IF tbl[name].id # 0 THEN tbl[name].id ELSE NextRepoId(tbl)

\* an upsert whose UPDATE stamps every row of repos
UpsertRepoStampingAll(tbl, name, tag, lastSync, commitHash, zipFile, size) ==
    [n \in DOMAIN tbl |->
        IF n = name
        THEN [id |-> UpsertRepoId(tbl, name), tag |-> tag, commitHash |-> commitHash,
              zipFile |-> zipFile, size |-> size, lastSync |-> lastSync]
        ELSE IF tbl[n].id # 0 THEN [tbl[n] EXCEPT !.lastSync = lastSync]
             ELSE tbl[n]]

UpsertRepo(tbl, name, tag, lastSync, commitHash, zipFile, size) ==
    [tbl EXCEPT ![name] =
        [id |-> UpsertRepoId(tbl, name), tag |-> tag, commitHash |-> commitHash,
         zipFile |-> zipFile, size |-> size, lastSync |-> lastSync]]

\* ids of the rows of versions with this (repo_id, tag): UNIQUE(repo_id, tag)
VersionIdsOf(vers, repoId, tag) ==
    {i \in 1..Len(vers) : vers[i].repoId = repoId /\ vers[i].tag = tag}

\* an insert that leaves a row of the same (repo_id, tag) as it is
InsertVersion(vers, repoId, tag, commitHash, zipFile, size, createdAt) ==
    IF \E i \in 1..Len(vers) : vers[i].repoId = repoId /\ vers[i].tag = tag
    THEN vers
    ELSE Append(vers,
           [id |-> Len(vers) + 1, repoId |-> repoId, tag |-> tag,
            commitHash |-> commitHash, zipFile |-> zipFile, size |-> size,
            createdAt |-> createdAt, deleted |-> FALSE])

\* an insert without ON CONFLICT and without the unique index
AppendVersion(vers, repoId, tag, commitHash, zipFile, size, createdAt) ==
    Append(vers,
           [id |-> Len(vers) + 1, repoId |-> repoId, tag |-> tag,
            commitHash |-> commitHash, zipFile |-> zipFile, size |-> size,
            createdAt |-> createdAt, deleted |-> FALSE])

\* RETURNING id: the id of the row AddVersion updates or inserts
AddVersionId(vers, repoId, tag) ==
    IF VersionIdsOf(vers, repoId, tag) # {}
    THEN CHOOSE j \in VersionIdsOf(vers, repoId, tag) : TRUE
    ELSE Len(vers) + 1

\* an upsert of versions whose UPDATE leaves zip_file as it is
AddVersionKeepingZip(vers, repoId, tag, commitHash, zipFile, size, createdAt) ==
    IF VersionIdsOf(vers, repoId, tag) # {}
    THEN LET i == CHOOSE j \in VersionIdsOf(vers, repoId, tag) : TRUE
         IN  [vers EXCEPT ![i] =
                [@ EXCEPT !.commitHash = commitHash, !.size = size,
                          !.createdAt = createdAt]]
    ELSE Append(vers,
           [id |-> Len(vers) + 1, repoId |-> repoId, tag |-> tag,
            commitHash |-> commitHash, zipFile |-> zipFile, size |-> size,
            createdAt |-> createdAt, deleted |-> FALSE])

\* INSERT INTO versions ... ON CONFLICT(repo_id, tag) DO UPDATE SET
\* commit_hash, zip_file, size, created_at (deleted is left as it is)
AddVersion(vers, repoId, tag, commitHash, zipFile, size, createdAt) ==
    IF VersionIdsOf(vers, repoId, tag) # {}
    THEN LET i == CHOOSE j \in VersionIdsOf(vers, repoId, tag) : TRUE
         IN  [vers EXCEPT ![i] =
                [@ EXCEPT !.commitHash = commitHash, !.zipFile = zipFile,
                          !.size = size, !.createdAt = createdAt]]
    ELSE Append(vers,
           [id |-> Len(vers) + 1, repoId |-> repoId, tag |-> tag,
            commitHash |-> commitHash, zipFile |-> zipFile, size |-> size,
            createdAt |-> createdAt, deleted |-> FALSE])

\* WHERE repo_id = ? AND deleted = 0
UnDeleted(vers, repoId) ==
    {i \in 1..Len(vers) : vers[i].repoId = repoId /\ ~vers[i].deleted}

\* the orders ORDER BY created_at DESC may deliver the ids of S in (SQL leaves
\* the order of rows with equal created_at open)
RECURSIVE Orderings(_, _)
Orderings(vers, S) ==
    IF S = {} THEN {<<>>}
    ELSE UNION {{<<x>> \o rest : rest \in Orderings(vers, S \ {x})} :
                  x \in {y \in S : \A z \in S : vers[y].createdAt >= vers[z].createdAt}}

\* a loop that passes over two rows only
DropFirst2(o) == IF Len(o) <= 2 THEN <<>> ELSE SubSeq(o, 3, Len(o))

\* rows.Next() with skip <= 3 : the first three rows are passed over
DropFirst3(o) == IF Len(o) <= 3 THEN <<>> ELSE SubSeq(o, 4, Len(o))

\* GetOlderThan3LatestUnDeletedVersions: the id sequences it may return
GetOlderThan3LatestUnDeletedVersions(vers, repoId) ==
    {DropFirst3(o) : o \in Orderings(vers, UnDeleted(vers, repoId))}

\* UPDATE versions SET deleted = 1 WHERE id = ?
MarkVersionAsDeleted(vers, id) == [vers EXCEPT ![id].deleted = TRUE]

\* COALESCE(MAX(version), 0)
MaxVersion(tbl) == Max({0} \cup {tbl[i] : i \in 1..Len(tbl)})

\* the insert without the step: the greatest version once more
IncrementWithoutStep(tbl) == Append(tbl, MaxVersion(tbl))

\* INSERT INTO package_list_versions SELECT COALESCE(MAX(version), 0) + 1
IncrementPackageListVersion(tbl) == Append(tbl, MaxVersion(tbl) + 1)

\* SELECT * FROM package_list_versions ORDER BY id DESC LIMIT 1; with no row
\* the result is version 1
LatestPackageListVersion(tbl) == IF Len(tbl) = 0 THEN 1 ELSE tbl[Len(tbl)]

\* ... and with no row IncrementPackageListVersion inserts one
GetLatestPackageListVersion(tbl) ==
    IF Len(tbl) = 0 THEN IncrementPackageListVersion(tbl) ELSE tbl

(* ------------------------------------------------------------------ *)
(* Catalog cache (API.cache, API.UpdateCache)                           *)
(* ------------------------------------------------------------------ *)
\* ORDER BY name
RepoOrder == <<"A", "B">>

\* SELECT * FROM repos ORDER BY name
GetAllRepos(tbl) == SelectSeq(RepoOrder, LAMBDA n : tbl[n].id # 0)

Min(a, b) == IF a <= b THEN a ELSE b

\* SELECT * FROM versions WHERE repo_id = ? ORDER BY created_at DESC LIMIT n :
\* the id sequences it may return (deleted rows are not filtered out)
GetVersionsByRepoID(vers, repoId, limit) ==
    {SubSeq(o, 1, Min(limit, Len(o))) :
        o \in Orderings(vers, {i \in 1..Len(vers) : vers[i].repoId = repoId})}

\* model.Version built from a row of versions
VersionOf(row) ==
    [file |-> row.zipFile, size |-> row.size, tag |-> row.tag,
     commit |-> row.commitHash, updatedAt |-> row.createdAt]

\* model.PackageInfo of one repository, from the ids of its versions
PackageInfoOf(vers, name, ids) ==
    [name |-> name, versions |-> [i \in 1..Len(ids) |-> VersionOf(vers[ids[i]])]]

\* the package lists the loop over repos may build
RECURSIVE BuildPackages(_, _, _)
BuildPackages(tbl, vers, names) ==
    IF names = <<>> THEN {<<>>}
    ELSE {<<PackageInfoOf(vers, Head(names), ids)>> \o rest :
            ids \in GetVersionsByRepoID(vers, tbl[Head(names)].id, 3),
            rest \in BuildPackages(tbl, vers, Tail(names))}

\* a.cache.packageInfo[repo.Name] = ... for every package built: entries of
\* other names stay as they are
PatchPackageInfo(old, packages) ==
    {e \in old : \A i \in 1..Len(packages) : packages[i].name # e.name}
        \cup {packages[i] : i \in 1..Len(packages)}

\* the documents of a cache nothing was stored in
NoDocs ==
    [hasPackages |-> FALSE, packages |-> <<>>, hasVersion |-> FALSE,
     version |-> 0, packageInfo |-> {}]

\* the documents of cache c: a.cache.packages, a.cache.packageInfo and
\* a.cache.version
Docs(c) ==
    [hasPackages |-> c.hasPackages, packages |-> c.packages,
     hasVersion |-> c.hasVersion, version |-> c.version,
     packageInfo |-> c.packageInfo]

\* API.cache before any UpdateCache got that far: packages and version are
\* nil.  torn tells that the last UpdateCache to store the package documents
\* has not stored the version document, and before holds, while torn, the
\* documents the cache held when that UpdateCache began.
EmptyCache ==
    [hasPackages |-> FALSE, packages |-> <<>>, hasVersion |-> FALSE,
     version |-> 0, packageInfo |-> {}, torn |-> FALSE, before |-> NoDocs]

\* the cache once UpdateCache has stored the package documents (lines 161, 169)
WithPackages(c, packages) ==
    [c EXCEPT !.hasPackages = TRUE, !.packages = packages,
              !.packageInfo = PatchPackageInfo(c.packageInfo, packages),
              !.torn = TRUE, !.before = Docs(c)]

\* the cache once UpdateCache has stored the version document (line 189)
WithVersion(c, v) ==
    [c EXCEPT !.hasVersion = TRUE, !.version = v, !.torn = FALSE,
              !.before = NoDocs]

\* listPackages: the answer to GET /packages
ListPackages(c) ==
    IF ~c.hasPackages THEN "cache not initialized" ELSE "ok"

\* getPackageVersions: the answer to GET /packages/{name}
GetPackageVersions(c, name) ==
    IF \E e \in c.packageInfo : e.name = name THEN "ok" ELSE "package not found"

\* getPackageListVersion: the answer to GET /package-list-version
GetPackageListVersion(c) ==
    IF ~c.hasVersion THEN "cache not initialized" ELSE "ok"

\* the read requests: GET /packages, /package-list-version, /packages/{name}
Requests ==
    {[op |-> "packages", name |-> ""], [op |-> "version", name |-> ""]}
        \cup {[op |-> "package", name |-> n] : n \in RepoNames}

\* the answer to request q from cache c
Answer(c, q) ==
    [op |-> q.op, name |-> q.name,
     status |-> CASE q.op = "packages" -> ListPackages(c)
                  [] q.op = "version" -> GetPackageListVersion(c)
                  [] OTHER -> GetPackageVersions(c, q.name)]

\* no request answered yet
NoResp == [op |-> "none", name |-> "", status |-> "none"]

(* ------------------------------------------------------------------ *)
(* Configuration (package config) and the start of main                 *)
(* ------------------------------------------------------------------ *)
\* the zero value of Config: what &Config{} holds
ZeroConfig == [port |-> 0, repos |-> {}, path |-> ""]

\* what a configuration file may say: server.port, repos, storage.path
Contents == [port : 1..MaxPort, repos : SUBSET RepoNames, path : {"", "data"}]

\* a configuration file as os.ReadFile and yaml.Unmarshal find it: readable
\* or not; well-formed ("ok"), not YAML ("syntax"), or YAML with a value of
\* the wrong type ("type")
ConfigFiles ==
    [readable : BOOLEAN, parse : {"ok", "syntax", "type"}, content : Contents]

\* what yaml.Unmarshal may leave in config when it returns a type error: the
\* fields it could decode, the others at their zero value
Partial(c) ==
    {[port |-> p, repos |-> rs, path |-> pa] :
        p \in {0, c.port}, rs \in {{}, c.repos}, pa \in {"", c.path}} \ {c}

\* what the function passed to once.Do leaves in config, and the err it
\* declares with := and returns on
Decoded(file) ==
    IF ~file.readable THEN {[config |-> ZeroConfig, err |-> "read"]}
    ELSE IF file.parse = "syntax" THEN {[config |-> ZeroConfig, err |-> "parse"]}
    ELSE IF file.parse = "type"
         THEN {[config |-> c, err |-> "parse"] : c \in Partial(file.content)}
    ELSE {[config |-> file.content, err |-> "nil"]}

\* LoadFromFile: once.Do runs the function on the first call only; the err
\* returned is the one declared by "var err error", which the function, having
\* its own err, never assigns
LoadFromFile(b) ==
    {[b EXCEPT !.once = TRUE,
               !.config = IF b.once THEN b.config ELSE d.config,
               !.err = "nil"] : d \in Decoded(b.file)}

\* package config and main once main runs the service over repositories rs
Booted(rs) ==
    LET c == [port |-> 1, repos |-> rs, path |-> "data"]
    IN  [phase |-> "running", once |-> TRUE, config |-> c, err |-> "nil",
         file |-> [readable |-> TRUE, parse |-> "ok", content |-> c]]

(* ------------------------------------------------------------------ *)
(* Initial state: NewSyncService and NewAPI have returned              *)
(* ------------------------------------------------------------------ *)
NoOne == <<"", "">>

\* API.mu held by no UpdateCache
NoCaller == "none"

\* the last pipeline to return did not fail
NoFailure == [at |-> "none", commit |-> NoHash, pulls |-> 0]

\* the part of syncRepo a pipeline at position p fails in: the Source Mirror
\* calls, os.Stat and GetFileSize of a file found, CreateZip and GetFileSize of
\* the file built, the store calls
Stage(p) ==
    CASE p = "read" -> "mirror"
      [] p = "zip" -> "stat"
      [] p = "create" -> "build"
      [] OTHER -> "store"

\* the record of a repository's pipelines before any has run: last is what the
\* last successful pipeline observed (NoHead once a later pipeline observed
\* something else), n counts the successful pipelines that observed something
\* new, commits and tags hold what they observed, distinct tells that each of
\* them observed a commit and a non-empty tag none had observed before,
\* distinctCommits the same of the commits alone, clean that no pipeline of
\* the repository has failed, failed where the last pipeline to return failed,
\* what commit it had observed and how many times it had called PullOrClone
NoHist ==
    [last |-> NoHead, n |-> 0, commits |-> {}, tags |-> {}, distinct |-> TRUE,
     distinctCommits |-> TRUE, clean |-> TRUE, failed |-> NoFailure]

\* the record once a pipeline that observed head has returned without error
Recorded(h, head) ==
    IF h.last = head THEN h
    ELSE [last |-> head, n |-> h.n + 1,
          commits |-> h.commits \cup {head.commit},
          tags |-> h.tags \cup {head.tag},
          distinct |-> /\ h.distinct
                       /\ head.commit \notin h.commits
                       /\ head.tag \notin h.tags
                       /\ head.tag # NoTag,
          distinctCommits |-> h.distinctCommits /\ head.commit \notin h.commits,
          clean |-> h.clean, failed |-> h.failed]

\* the locals of syncRepo before it has run.  first, newRows, built and after
\* are a record of what a pipeline that returned without error did: whether it
\* found no row of repos, how many rows of versions it inserted, the commit it
\* built an archive of (NoHash for none), and where the pipeline before it
\* failed if that had observed the same commit ("none" otherwise).  pulls
\* counts the calls of PullOrClone the pipeline has made.  lost tells that
\* GetRepoByName failed on a row that exists, recorded is the commit and tag
\* of the row of repos when the pipeline started.
NoLocals ==
    [latestCommitHash |-> NoHash, latestTag |-> NoTag, lastSync |-> 0,
     commitHash |-> NoHash, tag |-> NoTag, zipCreated |-> FALSE, repoID |-> 0,
     size |-> 0, versionsBefore |-> 0, first |-> FALSE, newRows |-> 0,
     built |-> NoHash, after |-> "none", pulls |-> 0, lost |-> FALSE,
     recorded |-> NoHead]

\* NewAPI ran UpdateCache once on the empty database: it succeeded, or (one
\* injected failure) it ended at GetAllRepos or at GetLatestPackageListVersion
InitCache(budget) ==
    \/ /\ cache = WithVersion(WithPackages(EmptyCache, <<>>),
                              LatestPackageListVersion(<<>>))
       /\ plv = GetLatestPackageListVersion(<<>>)
       /\ faults = budget
    \/ /\ budget > 0
       /\ cache \in {EmptyCache, WithPackages(EmptyCache, <<>>)}
       /\ plv = <<>>
       /\ faults = budget - 1

InitWith(rs, maxPushes, maxFaults) ==
    /\ boot = Booted(rs)
    /\ repos = rs
    /\ workdir = [r \in RepoNames |-> NoHead]
    /\ seen = [r \in RepoNames |-> [commits |-> 0, tags |-> 0]]
    /\ pushes = maxPushes
    /\ clock = [r \in RepoNames |-> 1]
    /\ files = {}
    /\ dbRepos = [r \in RepoNames |-> NoRepoRow]
    /\ dbVersions = <<>>
    /\ InitCache(maxFaults)
    /\ mu = [writer |-> NoOne, readers |-> {}]
    /\ amu = NoCaller
    /\ ver = [k \in Callers |-> 0]
    /\ resp = NoResp
    /\ trig = "none"
    /\ callPc = [k \in Callers |-> "idle"]
    /\ pc = [k \in Callers |-> [r \in RepoNames |-> "idle"]]
    /\ loc = [k \in Callers |-> [r \in RepoNames |-> NoLocals]]
    /\ res = [k \in Callers |-> [r \in RepoNames |-> "none"]]
    /\ errChan = [k \in Callers |-> <<>>]
    /\ hasChanges = [k \in Callers |-> FALSE]
    /\ ret = [k \in Callers |-> "none"]
    /\ bumps = [k \in Callers |-> 0]
    /\ cbs = [k \in Callers |-> 0]
    /\ hist = [r \in RepoNames |-> NoHist]

Init == InitWith(RepoNames, MaxPushes, MaxFaults)

InitSeq == InitWith({"A"}, MaxPushesSeq, MaxFaultsSeq)

(* ------------------------------------------------------------------ *)
(* Source Mirror (git.Repo)                                             *)
(* ------------------------------------------------------------------ *)
\* Repo.PullOrClone: the working copy is cloned, stays as it is, or moves to
\* what the remote holds now: commit number c carrying tag t.  Commits and
\* tags are numbered in the order the remote first shows them.
PullOrClone(r, c, t) ==
    LET head == [commit |-> Hash(c), tag |-> t]
    IN  /\ c \in 1..Min(seen[r].commits + 1, MaxCommits)
        /\ t \in 0..Min(seen[r].tags + 1, MaxTags)
        /\ workdir' = [workdir EXCEPT ![r] = head]
        /\ seen' = [seen EXCEPT ![r] =
                      [commits |-> IF c > @.commits THEN c ELSE @.commits,
                       tags |-> IF t > @.tags THEN t ELSE @.tags]]
        /\ IF head = workdir[r] \/ workdir[r].commit = NoHash
           THEN UNCHANGED pushes
           ELSE pushes > 0 /\ pushes' = pushes - 1

\* Repo.GetLatestCommit: HEAD of the working copy and the tag on it
GetLatestCommit(wd, r) == wd[r]

(* ------------------------------------------------------------------ *)
(* SyncService.syncRepo, one goroutine per (SyncAll call, repository)   *)
(* ------------------------------------------------------------------ *)
\* one collaborator call fails (git, zip, file system or store)
Fault == faults > 0 /\ faults' = faults - 1

NoFault == UNCHANGED faults

\* n collaborator calls fail
Faults(n) == faults >= n /\ faults' = faults - n

\* a lock that never makes anyone wait
AlwaysFree == TRUE

\* s.mu.Lock() returns: no writer and no reader holds the lock
LockFree == mu.writer = NoOne /\ mu.readers = {}

\* syncRepo entered without waiting for the lock
LockWithoutWaiting(k, r) ==
    /\ pc[k][r] = "lock"
    /\ mu' = [mu EXCEPT !.writer = <<k, r>>]
    /\ pc' = [pc EXCEPT ![k][r] = "read"]
    /\ UNCHANGED <<boot, repos, workdir, seen, pushes, faults, clock, files, dbRepos,
                   dbVersions, plv, cache, amu, ver, resp, trig, callPc, loc, res, errChan,
                   hasChanges, ret, bumps, cbs, hist>>

\* s.mu.Lock()
Lock(k, r) ==
    /\ pc[k][r] = "lock"
    /\ LockFree
    /\ mu' = [mu EXCEPT !.writer = <<k, r>>]
    /\ pc' = [pc EXCEPT ![k][r] = "read"]
    /\ UNCHANGED <<boot, repos, workdir, seen, pushes, faults, clock, files, dbRepos,
                   dbVersions, plv, cache, amu, ver, resp, trig, callPc, loc, res, errChan,
                   hasChanges, ret, bumps, cbs, hist>>

\* syncRepo returns (the deferred s.mu.Unlock() runs), and the goroutine of
\* SyncAll sends the error to errChan or sets hasChanges, then wg.Done().
\* out is "err", "changed" or "unchanged"; quiet tells that the pipeline
\* dropped no error on its way.
Return(k, r, out, quiet) ==
    /\ mu' = [mu EXCEPT !.writer = IF @ = <<k, r>> THEN NoOne ELSE @]
    /\ pc' = [pc EXCEPT ![k][r] = "done"]
    /\ res' = [res EXCEPT ![k][r] = out]
    /\ errChan' = [errChan EXCEPT ![k] = IF out = "err" THEN Append(@, r) ELSE @]
    /\ hasChanges' = [hasChanges EXCEPT ![k] = @ \/ out = "changed"]
    /\ loc' = [loc EXCEPT ![k][r] =
                 IF out = "err" THEN NoLocals
                 ELSE [NoLocals EXCEPT
                         !.first = (loc[k][r].recorded.commit = NoHash),
                         !.newRows = Len(dbVersions') - loc[k][r].versionsBefore,
                         !.built = IF loc[k][r].zipCreated
                                   THEN loc[k][r].commitHash ELSE NoHash,
                         !.after = loc[k][r].after]]
    /\ hist' = [hist EXCEPT ![r] =
                  IF out = "err"
                  THEN [@ EXCEPT !.clean = FALSE,
                                 !.failed = [at |-> Stage(pc[k][r]),
                                             commit |-> loc[k][r].commitHash,
                                             pulls |-> IF pc[k][r] = "read" THEN 1
                                                       ELSE loc[k][r].pulls]]
                  ELSE [Recorded(@, [commit |-> loc[k][r].commitHash,
                                     tag |-> loc[k][r].tag])
                          EXCEPT !.clean = @ /\ quiet /\ ~loc[k][r].lost,
                                 !.failed = NoFailure]]

\* a syncRepo that stamps the row of repos before it gives up
AbortStamping(k, r) ==
    /\ Return(k, r, "err", FALSE)
    /\ dbRepos' = [dbRepos EXCEPT ![r].lastSync = clock'[r]]
    /\ UNCHANGED <<files, dbVersions>>

\* lines 132 and 138: return err, false
Abort(k, r) ==
    /\ Return(k, r, "err", FALSE)
    /\ UNCHANGED <<files, dbRepos, dbVersions>>

\* lines 118-139: read the prior state, PullOrClone, GetLatestCommit.  An
\* error of GetRepoByName, no row or any other, leaves the locals at "" and
\* time.Now() and is dropped.
Observe(k, r) ==
    /\ pc[k][r] = "read"
    /\ \E lost \in {FALSE} \cup {dbRepos[r].id # 0} :
         LET row    == GetRepoByName(dbRepos, r)
             dbRepo == IF lost THEN NoRepoRow ELSE row
             found  == dbRepo.id # 0
             nLost  == IF lost THEN 1 ELSE 0
             prior  == [loc[k][r] EXCEPT
                          !.latestCommitHash = dbRepo.commitHash,
                          !.latestTag = dbRepo.tag,
                          !.lastSync = IF found THEN dbRepo.lastSync ELSE clock[r],
                          !.versionsBefore = Len(dbVersions),
                          !.lost = lost,
                          !.recorded = [commit |-> row.commitHash, tag |-> row.tag]]
         IN  /\ clock' = IF found THEN clock ELSE [clock EXCEPT ![r] = @ + 1]
             /\ \/ /\ Faults(nLost)
                   /\ \E c \in 1..MaxCommits, t \in 0..MaxTags : PullOrClone(r, c, t)
                   /\ loc' = [loc EXCEPT ![k][r] =
                                [prior EXCEPT
                                   !.commitHash = GetLatestCommit(workdir', r).commit,
                                   !.tag = GetLatestCommit(workdir', r).tag,
                                   !.pulls = 1,
                                   !.after =
                                      IF hist[r].failed.commit = GetLatestCommit(workdir', r).commit
                                      THEN hist[r].failed.at ELSE "none"]]
                   /\ pc' = [pc EXCEPT ![k][r] = "zip"]
                   /\ hist' = [hist EXCEPT ![r].last =
                                 IF @ = GetLatestCommit(workdir', r) THEN @ ELSE NoHead]
                   /\ UNCHANGED <<mu, res, errChan, hasChanges, files, dbRepos,
                                  dbVersions>>
                \/ \* PullOrClone fails before it has changed the working copy
                   /\ Faults(nLost + 1)
                   /\ Abort(k, r)
                   /\ UNCHANGED <<workdir, seen, pushes>>
                \/ \* PullOrClone fails after the pull (in Fetch), or
                   \* GetLatestCommit fails
                   /\ Faults(nLost + 1)
                   /\ \E c \in 1..MaxCommits, t \in 0..MaxTags : PullOrClone(r, c, t)
                   /\ Abort(k, r)
    /\ UNCHANGED <<boot, repos, plv, cache, amu, ver, resp, trig, callPc, ret, bumps, cbs>>

\* a pipeline that builds the archive without looking for the file
ZipWithoutStat(k, r) ==
    /\ pc[k][r] = "zip"
    /\ NoFault
    /\ pc' = [pc EXCEPT ![k][r] = "create"]
    /\ UNCHANGED <<mu, loc, res, errChan, hasChanges, hist>>
    /\ UNCHANGED <<boot, repos, workdir, seen, pushes, clock, files, dbRepos, dbVersions,
                   plv, cache, amu, ver, resp, trig, callPc, ret, bumps, cbs>>

\* lines 141-150 and 156-164: os.Stat of the zip file, and zip.GetFileSize of
\* a file that exists
Zip(k, r) ==
    /\ pc[k][r] = "zip"
    /\ LET l == loc[k][r]
           zipFileName == ZipFileName(r, l.commitHash)
       IN  \/ \* the file exists
              /\ zipFileName \in files
              /\ NoFault
              /\ loc' = [loc EXCEPT ![k][r].size = SizeOf(l.commitHash)]
              /\ pc' = [pc EXCEPT ![k][r] = "upsert"]
              /\ UNCHANGED <<mu, res, errChan, hasChanges, hist>>
           \/ \* the file does not exist
              /\ zipFileName \notin files
              /\ NoFault
              /\ pc' = [pc EXCEPT ![k][r] = "create"]
              /\ UNCHANGED <<mu, loc, res, errChan, hasChanges, hist>>
           \/ \* os.Stat fails otherwise, or GetFileSize fails
              /\ Fault
              /\ Return(k, r, "err", FALSE)
    /\ UNCHANGED <<boot, repos, workdir, seen, pushes, clock, files, dbRepos, dbVersions,
                   plv, cache, amu, ver, resp, trig, callPc, ret, bumps, cbs>>

\* lines 151-155 and 160-164: zip.CreateZip, and zip.GetFileSize of the file
\* built
Create(k, r) ==
    /\ pc[k][r] = "create"
    /\ LET l == loc[k][r]
           zipFileName == ZipFileName(r, l.commitHash)
       IN  \/ \* CreateZip writes the file
              /\ NoFault
              /\ files' = files \cup {zipFileName}
              /\ loc' = [loc EXCEPT ![k][r] =
                           [l EXCEPT !.zipCreated = TRUE, !.lastSync = clock[r],
                                     !.size = SizeOf(l.commitHash)]]
              /\ clock' = [clock EXCEPT ![r] = @ + 1]
              /\ pc' = [pc EXCEPT ![k][r] = "upsert"]
              /\ UNCHANGED <<mu, res, errChan, hasChanges, hist>>
           \/ \* CreateZip fails in os.Create: no file
              /\ Fault
              /\ Return(k, r, "err", FALSE)
              /\ UNCHANGED <<files, clock>>
           \/ \* CreateZip fails while it walks the tree, or GetFileSize fails
              \* after it: the file stays
              /\ Fault
              /\ files' = files \cup {zipFileName}
              /\ Return(k, r, "err", FALSE)
              /\ UNCHANGED clock
    /\ UNCHANGED <<boot, repos, workdir, seen, pushes, dbRepos, dbVersions, plv, cache,
                   amu, ver, resp, trig, callPc, ret, bumps, cbs>>

\* lines 166-180: s.store.UpsertRepo(dbRepo)
Upsert(k, r) ==
    /\ pc[k][r] = "upsert"
    /\ LET l == loc[k][r]
       IN  \/ /\ NoFault
              /\ dbRepos' = UpsertRepo(dbRepos, r, l.tag, l.lastSync, l.commitHash,
                                       ZipFileName(r, l.commitHash), l.size)
              /\ loc' = [loc EXCEPT ![k][r].repoID = UpsertRepoId(dbRepos, r)]
              /\ pc' = [pc EXCEPT ![k][r] = "addver"]
              /\ UNCHANGED <<mu, res, errChan, hasChanges, hist>>
           \/ /\ Fault
              /\ Return(k, r, "err", FALSE)
              /\ UNCHANGED dbRepos
    /\ UNCHANGED <<boot, repos, workdir, seen, pushes, clock, files, dbVersions, plv,
                   cache, amu, ver, resp, trig, callPc, ret, bumps, cbs>>

\* an AddVersion step that takes the repository's row back when it fails
AddVerUndoingUpsert(k, r) ==
    /\ pc[k][r] = "addver"
    /\ LET l == loc[k][r]
       IN  \/ /\ NoFault
              /\ dbVersions' = AddVersion(dbVersions, l.repoID, l.tag, l.commitHash,
                                          ZipFileName(r, l.commitHash), l.size,
                                          l.lastSync)
              /\ pc' = [pc EXCEPT ![k][r] = "retain"]
              /\ UNCHANGED <<mu, loc, res, errChan, hasChanges, hist, dbRepos>>
           \/ /\ Fault
              /\ Return(k, r, "err", FALSE)
              /\ dbRepos' = [dbRepos EXCEPT ![r] = NoRepoRow]
              /\ UNCHANGED dbVersions
    /\ UNCHANGED <<boot, repos, workdir, seen, pushes, clock, files, plv, cache, amu, ver, resp, trig,
                   callPc, ret, bumps, cbs>>

\* lines 182-194: s.store.AddVersion(version)
AddVer(k, r) ==
    /\ pc[k][r] = "addver"
    /\ LET l == loc[k][r]
       IN  \/ /\ NoFault
              /\ dbVersions' = AddVersion(dbVersions, l.repoID, l.tag, l.commitHash,
                                          ZipFileName(r, l.commitHash), l.size,
                                          l.lastSync)
              /\ pc' = [pc EXCEPT ![k][r] = "retain"]
              /\ UNCHANGED <<mu, loc, res, errChan, hasChanges, hist>>
           \/ /\ Fault
              /\ Return(k, r, "err", FALSE)
              /\ UNCHANGED dbVersions
    /\ UNCHANGED <<boot, repos, workdir, seen, pushes, clock, files, dbRepos, plv, cache, amu, ver, resp, trig,
                   callPc, ret, bumps, cbs>>

\* the zip files of the listed versions
ZipsOf(vers, ids) == {vers[ids[i]].zipFile : i \in 1..Len(ids)}

\* s.store.MarkVersionAsDeleted for each listed version
RECURSIVE MarkAll(_, _)
MarkAll(vers, ids) ==
    IF ids = <<>> THEN vers
    ELSE MarkAll(MarkVersionAsDeleted(vers, Head(ids)), Tail(ids))

\* line 196: the recorded tag is the observed one and the commit differs
TagMoved(l) ==
    /\ l.latestTag = l.tag
    /\ l.latestCommitHash # NoHash
    /\ l.latestCommitHash # l.commitHash

\* lines 196-201: the zip of the previously recorded commit, to be removed
EagerDelete(r, l) ==
    IF TagMoved(l) THEN {ZipFileName(r, l.latestCommitHash)} ELSE {}

\* a retention that removes no file
RemoveNothing(fs, gone, stay) == fs

\* os.Remove of each file of gone, its error dropped: the files of stay are
\* the ones it fails to remove
Remove(fs, gone, stay) == fs \ (gone \ stay)

\* a retention that exempts no row
ExemptNone(vers, versions) == FALSE

\* line 209: the one older version is the row with the empty tag
Exempt(vers, versions) ==
    Len(versions) = 1 /\ vers[versions[1]].tag = NoTag

\* line 228: what syncRepo reports when it ends without error
Changed(l) == l.zipCreated \/ l.tag # l.latestTag

Outcome(l) == IF Changed(l) THEN "changed" ELSE "unchanged"

\* lines 196-233: eager delete, retention, result
Retain(k, r) ==
    /\ pc[k][r] = "retain"
    /\ LET l == loc[k][r]
           eager == EagerDelete(r, l)
       IN  \E stay \in SUBSET files :
              \/ \* GetOlderThan3LatestUnDeletedVersions fails
                 /\ stay \subseteq eager
                 /\ Faults(Cardinality(stay) + 1)
                 /\ files' = Remove(files, eager, stay)
                 /\ UNCHANGED dbVersions
                 /\ Return(k, r, "err", FALSE)
              \/ \E versions \in GetOlderThan3LatestUnDeletedVersions(dbVersions, l.repoID) :
                    \/ /\ Exempt(dbVersions, versions)
                       /\ stay \subseteq eager
                       /\ Faults(Cardinality(stay))
                       /\ files' = Remove(files, eager, stay)
                       /\ UNCHANGED dbVersions
                       /\ Return(k, r, Outcome(l), stay = {})
                    \/ /\ ~Exempt(dbVersions, versions)
                       /\ stay \subseteq eager \cup ZipsOf(dbVersions, versions)
                       /\ Faults(Cardinality(stay))
                       /\ files' = Remove(files, eager \cup ZipsOf(dbVersions, versions), stay)
                       /\ dbVersions' = MarkAll(dbVersions, versions)
                       /\ Return(k, r, Outcome(l), stay = {})
                    \/ \* MarkVersionAsDeleted fails for the j-th older version
                       /\ ~Exempt(dbVersions, versions)
                       /\ \E j \in 1..Len(versions) :
                             LET gone == eager \cup ZipsOf(dbVersions, SubSeq(versions, 1, j))
                             IN  /\ stay \subseteq gone
                                 /\ files' = Remove(files, gone, stay)
                                 /\ dbVersions' = MarkAll(dbVersions, SubSeq(versions, 1, j - 1))
                       /\ Faults(Cardinality(stay) + 1)
                       /\ Return(k, r, "err", FALSE)
    /\ UNCHANGED <<boot, repos, workdir, seen, pushes, clock, dbRepos, plv, cache, amu, ver, resp, trig,
                   callPc, ret, bumps, cbs>>

(* ------------------------------------------------------------------ *)
(* SyncService.SyncAll, one call at a time per caller                   *)
(* ------------------------------------------------------------------ *)
\* a handler that answers once the sync it ran has returned, with its result
TriggerSyncAndWait ==
    /\ callPc["admin"] \in {"idle", "done"}
    /\ callPc' = [callPc EXCEPT !["admin"] = "spawned"]
    /\ trig' = "pending"
    /\ UNCHANGED <<boot, repos, workdir, seen, pushes, faults, clock, files, dbRepos,
                   dbVersions, plv, mu, cache, amu, ver, resp, pc, loc, res,
                   errChan, hasChanges, ret, bumps, cbs, hist>>

\* API.triggerSync (POST /admin/sync): the go statement creates the goroutine
\* that will call SyncAll, and the handler answers 202 "sync started".  The
\* admin's goroutines run their SyncAll calls one after the other here.
TriggerSync ==
    /\ callPc["admin"] \in {"idle", "done"}
    /\ callPc' = [callPc EXCEPT !["admin"] = "spawned"]
    /\ trig' = "accepted"
    /\ UNCHANGED <<boot, repos, workdir, seen, pushes, faults, clock, files, dbRepos,
                   dbVersions, plv, mu, cache, amu, ver, resp, pc, loc, res,
                   errChan, hasChanges, ret, bumps, cbs, hist>>

\* where a caller's SyncAll starts from: the ticker's loop calls it again once
\* it has returned, the goroutine of triggerSync calls it once
Ready(k) == IF k = "admin" THEN {"spawned"} ELSE {"idle", "done"}

\* lines 65-79: the call starts one goroutine per repository
Start(k) ==
    /\ callPc[k] \in Ready(k)
    /\ callPc' = [callPc EXCEPT ![k] = "wait"]
    /\ pc' = [pc EXCEPT ![k] = [r \in RepoNames |-> IF r \in repos THEN "lock" ELSE "idle"]]
    /\ loc' = [loc EXCEPT ![k] = [r \in RepoNames |-> NoLocals]]
    /\ res' = [res EXCEPT ![k] = [r \in RepoNames |-> "none"]]
    /\ errChan' = [errChan EXCEPT ![k] = <<>>]
    /\ hasChanges' = [hasChanges EXCEPT ![k] = FALSE]
    /\ ret' = [ret EXCEPT ![k] = "none"]
    /\ bumps' = [bumps EXCEPT ![k] = 0]
    /\ cbs' = [cbs EXCEPT ![k] = 0]
    /\ UNCHANGED <<boot, repos, workdir, seen, pushes, faults, clock, files, dbRepos,
                   dbVersions, plv, mu, cache, amu, ver, resp, trig, hist>>

\* a SyncAll that returns on the first error, without waiting for the rest
CollectFirstError(k) ==
    /\ callPc[k] = "wait"
    /\ \/ \A r \in repos : pc[k][r] = "done"
       \/ Len(errChan[k]) > 0
    /\ IF Len(errChan[k]) > 0
       THEN callPc' = [callPc EXCEPT ![k] = "done"] /\ ret' = [ret EXCEPT ![k] = "err"]
       ELSE IF hasChanges[k]
            THEN callPc' = [callPc EXCEPT ![k] = "bump"] /\ UNCHANGED ret
            ELSE callPc' = [callPc EXCEPT ![k] = "done"] /\ ret' = [ret EXCEPT ![k] = "nil"]
    /\ UNCHANGED <<boot, repos, workdir, seen, pushes, faults, clock, files, dbRepos,
                   dbVersions, plv, mu, cache, amu, ver, resp, trig, pc, loc, res, errChan, hasChanges,
                   bumps, cbs, hist>>

\* a SyncAll that bumps the version whether or not anything changed
CollectAlwaysBump(k) ==
    /\ callPc[k] = "wait"
    /\ \A r \in repos : pc[k][r] = "done"
    /\ IF Len(errChan[k]) > 0
       THEN callPc' = [callPc EXCEPT ![k] = "done"] /\ ret' = [ret EXCEPT ![k] = "err"]
       ELSE callPc' = [callPc EXCEPT ![k] = "bump"] /\ UNCHANGED ret
    /\ UNCHANGED <<boot, repos, workdir, seen, pushes, faults, clock, files, dbRepos,
                   dbVersions, plv, mu, cache, amu, ver, resp, trig, pc, loc, res, errChan, hasChanges,
                   bumps, cbs, hist>>

\* lines 81-95: wg.Wait() returns, the errors are collected
Collect(k) ==
    /\ callPc[k] = "wait"
    /\ \A r \in repos : pc[k][r] = "done"
    /\ IF Len(errChan[k]) > 0
       THEN callPc' = [callPc EXCEPT ![k] = "done"] /\ ret' = [ret EXCEPT ![k] = "err"]
       ELSE IF hasChanges[k]
            THEN callPc' = [callPc EXCEPT ![k] = "bump"] /\ UNCHANGED ret
            ELSE callPc' = [callPc EXCEPT ![k] = "done"] /\ ret' = [ret EXCEPT ![k] = "nil"]
    /\ UNCHANGED <<boot, repos, workdir, seen, pushes, faults, clock, files, dbRepos,
                   dbVersions, plv, mu, cache, amu, ver, resp, trig, pc, loc, res, errChan, hasChanges,
                   bumps, cbs, hist>>

\* lines 96-100: s.store.IncrementPackageListVersion(); a failure is logged
Bump(k) ==
    /\ callPc[k] = "bump"
    /\ \/ /\ NoFault
          /\ plv' = IncrementPackageListVersion(plv)
          /\ bumps' = [bumps EXCEPT ![k] = @ + 1]
       \/ /\ Fault
          /\ UNCHANGED <<plv, bumps>>
    /\ callPc' = [callPc EXCEPT ![k] = "callback"]
    /\ UNCHANGED <<boot, repos, workdir, seen, pushes, clock, files, dbRepos, dbVersions,
                   mu, cache, amu, ver, resp, trig, pc, loc, res, errChan, hasChanges, ret, cbs, hist>>

\* s.mu.RLock() returns: no writer holds the lock
RLockFree == mu.writer = NoOne

\* an UpdateCache whose caller returns without s.mu.RUnlock()
LeaveHoldingLock(k) ==
    /\ amu' = NoCaller
    /\ mu' = mu
    /\ ver' = [ver EXCEPT ![k] = 0]
    /\ callPc' = [callPc EXCEPT ![k] = "done"]
    /\ ret' = [ret EXCEPT ![k] = "nil"]

\* UpdateCache returns (the deferred a.mu.Unlock() runs), onSync returns,
\* s.mu.RUnlock(), and SyncAll returns nil
Leave(k) ==
    /\ amu' = NoCaller
    /\ mu' = [mu EXCEPT !.readers = @ \ {k}]
    /\ ver' = [ver EXCEPT ![k] = 0]
    /\ callPc' = [callPc EXCEPT ![k] = "done"]
    /\ ret' = [ret EXCEPT ![k] = "nil"]

\* SyncAll lines 102-105 and UpdateCache lines 111-169: s.mu.RLock(),
\* s.onSync(), a.mu.Lock(), the package documents are built and stored
Callback(k) ==
    /\ callPc[k] = "callback"
    /\ RLockFree
    /\ amu = NoCaller
    /\ cbs' = [cbs EXCEPT ![k] = @ + 1]
    /\ \/ /\ NoFault
          /\ \E packages \in BuildPackages(dbRepos, dbVersions, GetAllRepos(dbRepos)) :
                cache' = WithPackages(cache, packages)
          /\ amu' = k
          /\ mu' = [mu EXCEPT !.readers = @ \cup {k}]
          /\ callPc' = [callPc EXCEPT ![k] = "version"]
          /\ UNCHANGED <<ver, ret>>
       \/ \* GetAllRepos fails: UpdateCache returns the error, which is logged
          /\ Fault
          /\ callPc' = [callPc EXCEPT ![k] = "done"]
          /\ ret' = [ret EXCEPT ![k] = "nil"]
          /\ UNCHANGED <<cache, amu, mu, ver>>
    /\ UNCHANGED <<boot, repos, workdir, seen, pushes, clock, files, dbRepos, dbVersions,
                   plv, resp, trig, pc, loc, res, errChan, hasChanges, bumps, hist>>

\* UpdateCache line 172: GetLatestPackageListVersion, its SELECT and, when
\* that finds no row, its INSERT, two statements outside any transaction
GetVersion(k) ==
    /\ callPc[k] \in {"version", "insert"}
    /\ \/ \* the SELECT
          /\ callPc[k] = "version"
          /\ NoFault
          /\ ver' = [ver EXCEPT ![k] = LatestPackageListVersion(plv)]
          /\ callPc' = [callPc EXCEPT ![k] = IF Len(plv) = 0 THEN "insert" ELSE "store"]
          /\ UNCHANGED <<plv, amu, mu, ret>>
       \/ \* the INSERT of IncrementPackageListVersion
          /\ callPc[k] = "insert"
          /\ NoFault
          /\ plv' = IncrementPackageListVersion(plv)
          /\ callPc' = [callPc EXCEPT ![k] = "store"]
          /\ UNCHANGED <<ver, amu, mu, ret>>
       \/ \* either statement fails: UpdateCache returns the error
          /\ Fault
          /\ Leave(k)
          /\ UNCHANGED plv
    /\ UNCHANGED <<boot, repos, workdir, seen, pushes, clock, files, dbRepos, dbVersions,
                   cache, resp, trig, pc, loc, res, errChan, hasChanges, bumps, cbs, hist>>

\* UpdateCache lines 177-191: the version document is stored
Store(k) ==
    /\ callPc[k] = "store"
    /\ cache' = WithVersion(cache, ver[k])
    /\ Leave(k)
    /\ UNCHANGED <<boot, repos, workdir, seen, pushes, faults, clock, files, dbRepos,
                   dbVersions, plv, resp, trig, pc, loc, res, errChan, hasChanges, bumps,
                   cbs, hist>>

(* ------------------------------------------------------------------ *)
(* The read API: listPackages, getPackageVersions, getPackageListVersion *)
(* ------------------------------------------------------------------ *)
\* a.mu.RLock() returns: no UpdateCache holds the lock
ARLockFree == amu = NoCaller

\* one GET: a.mu.RLock(), the answer from the cache, a.mu.RUnlock()
Get(q) ==
    /\ ARLockFree
    /\ resp' = Answer(cache, q)
    /\ UNCHANGED <<boot, repos, workdir, seen, pushes, faults, clock, files, dbRepos,
                   dbVersions, plv, mu, cache, amu, ver, trig, callPc, pc, loc,
                   res, errChan, hasChanges, ret, bumps, cbs, hist>>

(* ------------------------------------------------------------------ *)
(* Specifications                                                       *)
(* ------------------------------------------------------------------ *)
Step(k) ==
    \/ Start(k)
    \/ Collect(k)
    \/ Bump(k)
    \/ Callback(k)
    \/ GetVersion(k)
    \/ Store(k)
    \/ \E r \in repos : Lock(k, r)
    \/ \E r \in repos : Observe(k, r)
    \/ \E r \in repos : Zip(k, r)
    \/ \E r \in repos : Create(k, r)
    \/ \E r \in repos : Upsert(k, r)
    \/ \E r \in repos : AddVer(k, r)
    \/ \E r \in repos : Retain(k, r)

\* timer-driven and on-demand SyncAll calls over both repositories
Next ==
    \/ \E k \in Callers : Step(k)
    \/ TriggerSync

Spec == Init /\ [][Next]_vars

\* the timer's SyncAll calls over one repository
NextSeq == Step("timer")

SpecSeq == InitSeq /\ [][NextSeq]_vars

\* timer-driven and on-demand SyncAll calls over one repository
InitRace == InitWith({"A"}, MaxPushesRace, MaxFaultsRace)

SpecRace == InitRace /\ [][Next]_vars

\* the timer's SyncAll calls over one repository whose remote changes more
\* often, no failure injected
InitLong == InitWith({"A"}, MaxPushesLong, 0)

SpecLong == InitLong /\ [][NextSeq]_vars

\* the timer's SyncAll calls over one repository, and the GETs of the read API
InitApi == InitWith({"A"}, MaxPushesApi, MaxFaultsApi)

NextApi ==
    \/ NextSeq
    \/ \E q \in Requests : Get(q)

SpecApi == InitApi /\ [][NextApi]_vars

\* timer-driven and on-demand SyncAll calls over both repositories and the
\* GETs of the package list; a goroutine that can take a step again and again
\* takes one (sync.Mutex and sync.RWMutex hand the lock to a waiter, they do
\* not starve it)
InitLive == InitWith(RepoNames, 0, MaxFaultsLive)

NextLive ==
    \/ Next
    \/ Get([op |-> "packages", name |-> ""])

SpecLive ==
    /\ InitLive
    /\ [][NextLive]_vars
    /\ \A k \in Callers : SF_vars(Step(k))

\* main line 23, config.Load(): LoadFromFile("config/config.yaml")
Load ==
    /\ boot.phase = "start"
    /\ \E b \in LoadFromFile(boot) : boot' = [b EXCEPT !.phase = "loaded"]
    /\ UNCHANGED <<repos, workdir, seen, pushes, faults, clock, files, dbRepos,
                   dbVersions, plv, mu, cache, amu, ver, resp, trig, callPc, pc,
                   loc, res, errChan, hasChanges, ret, bumps, cbs, hist>>

\* main lines 24-27 and 37: with an error main exits, without one it goes on
\* to NewSyncService, which takes the repositories of the configuration
Main ==
    /\ boot.phase = "loaded"
    /\ IF boot.err # "nil"
       THEN /\ boot' = [boot EXCEPT !.phase = "exited"]
            /\ UNCHANGED repos
       ELSE /\ boot' = [boot EXCEPT !.phase = "running"]
            /\ repos' = boot.config.repos
    /\ UNCHANGED <<workdir, seen, pushes, faults, clock, files, dbRepos,
                   dbVersions, plv, mu, cache, amu, ver, resp, trig, callPc, pc,
                   loc, res, errChan, hasChanges, ret, bumps, cbs, hist>>

\* the process is started with some configuration file, or none
InitConfig ==
    /\ boot \in [phase : {"start"}, once : {FALSE}, config : {ZeroConfig},
                 err : {"nil"}, file : ConfigFiles]
    /\ repos = {}
    /\ workdir = [r \in RepoNames |-> NoHead]
    /\ seen = [r \in RepoNames |-> [commits |-> 0, tags |-> 0]]
    /\ pushes = 0
    /\ faults = 0
    /\ clock = [r \in RepoNames |-> 1]
    /\ files = {}
    /\ dbRepos = [r \in RepoNames |-> NoRepoRow]
    /\ dbVersions = <<>>
    /\ plv = <<>>
    /\ cache = EmptyCache
    /\ mu = [writer |-> NoOne, readers |-> {}]
    /\ amu = NoCaller
    /\ ver = [k \in Callers |-> 0]
    /\ resp = NoResp
    /\ trig = "none"
    /\ callPc = [k \in Callers |-> "idle"]
    /\ pc = [k \in Callers |-> [r \in RepoNames |-> "idle"]]
    /\ loc = [k \in Callers |-> [r \in RepoNames |-> NoLocals]]
    /\ res = [k \in Callers |-> [r \in RepoNames |-> "none"]]
    /\ errChan = [k \in Callers |-> <<>>]
    /\ hasChanges = [k \in Callers |-> FALSE]
    /\ ret = [k \in Callers |-> "none"]
    /\ bumps = [k \in Callers |-> 0]
    /\ cbs = [k \in Callers |-> 0]
    /\ hist = [r \in RepoNames |-> NoHist]

NextConfig ==
    \/ Load
    \/ Main

SpecConfig == InitConfig /\ [][NextConfig]_vars

(* ------------------------------------------------------------------ *)
(* Properties of one SyncAll call                                       *)
(* ------------------------------------------------------------------ *)
\* SyncAll of caller k has returned
Returned(k) == ret[k] # "none"

\* the repositories whose pipeline failed in the call of caller k
Failed(k) == {r \in repos : res[k][r] = "err"}

\* some pipeline of the call of caller k reported a change
SomeChanged(k) == \E r \in repos : res[k][r] = "changed"

\* C1: when SyncAll returns, every pipeline of the batch has run to its end,
\* whatever the others did; the call returns an error exactly when some
\* pipeline failed, and the error holds one entry per failed repository
ErrorsCollected ==
    \A k \in Callers :
        Returned(k) =>
            /\ \A r \in repos : pc[k][r] = "done" /\ res[k][r] # "none"
            /\ (ret[k] = "err") <=> (Failed(k) # {})
            /\ Len(errChan[k]) = Cardinality(Failed(k))
            /\ {errChan[k][i] : i \in 1..Len(errChan[k])} = Failed(k)

\* a call has returned an error, one pipeline failed and the other completed
OneFailedOneCompleted ==
    \E k \in Callers :
        /\ ret[k] = "err"
        /\ res[k]["A"] = "err"
        /\ res[k]["B"] \in {"changed", "unchanged"}

\* C2: a SyncAll call in which some pipeline reported a change, whatever the
\* others did, incremented the catalog version once and invoked the callback
\* once before it returned
BumpsOncePerChangedCall ==
    \A k \in Callers :
        (Returned(k) /\ SomeChanged(k)) => (bumps[k] = 1 /\ cbs[k] = 1)

\* the version GetLatestPackageListVersion finds, 0 for none
LatestOrNone(tbl) == IF Len(tbl) = 0 THEN 0 ELSE tbl[Len(tbl)]

CatalogVersionStep ==
    /\ LatestOrNone(plv') >= LatestOrNone(plv)
    /\ plv' # plv =>
          /\ plv' = Append(plv, LatestOrNone(plv) + 1)
          /\ \A i \in 1..Len(plv) : plv[i] # LatestOrNone(plv')

\* C3: under any interleaving of SyncAll calls the latest catalog version
\* never decreases, and a bump raises it by exactly 1: no value skipped, none
\* produced twice
CatalogVersionStepsByOne == [][CatalogVersionStep]_vars

\* two overlapping calls have each bumped the version
BothCallersBumped ==
    /\ \A k \in Callers : bumps[k] = 1
    /\ Len(plv) >= 3

\* C4: a SyncAll call increments the catalog version at most once, and a
\* call in which no pipeline reported a change does neither increment it nor
\* rebuild the cache
AtMostOneBumpPerCall ==
    \A k \in Callers :
        /\ bumps[k] <= 1
        /\ (Returned(k) /\ ~SomeChanged(k)) => (bumps[k] = 0 /\ cbs[k] = 0)

\* a call over synced repositories has returned with nothing changed, after
\* an earlier call had bumped the version
ReturnedUnchanged ==
    \E k \in Callers :
        /\ ret[k] = "nil"
        /\ \A r \in repos : res[k][r] = "unchanged"
        /\ bumps[k] = 0
        /\ Len(plv) >= 2

\* C5: a call whose pipeline found no row of repos for a repository and
\* succeeded has left one row of repos and one row of versions for it and has
\* incremented the catalog version once
FirstSyncBumpsOnce ==
    \A k \in Callers, r \in repos :
        (Returned(k) /\ res[k][r] \in {"changed", "unchanged"} /\ loc[k][r].first) =>
            /\ dbRepos[r].id # 0
            /\ loc[k][r].newRows = 1
            /\ bumps[k] = 1

\* the states of a pipeline between s.mu.Lock() and its return
Body == {"read", "zip", "create", "upsert", "addver", "retain"}

\* C9: when a pipeline has completed its store writes, the commit in the row
\* of repos is the commit in the row of versions it has just written
StateMatchesLastVersion ==
    \A k \in Callers, r \in repos :
        pc[k][r] = "retain" =>
            \E i \in VersionIdsOf(dbVersions, loc[k][r].repoID, loc[k][r].tag) :
                dbVersions[i].commitHash = dbRepos[r].commitHash

\* a pipeline has replaced the recorded commit while the pipeline of the
\* other caller waits for the lock
WroteWhileOtherWaits ==
    \E k \in Callers, j \in Callers :
        /\ j # k
        /\ pc[k]["A"] = "retain"
        /\ loc[k]["A"].latestCommitHash \notin {NoHash, loc[k]["A"].commitHash}
        /\ pc[j]["A"] = "lock"

\* C10: at most one pipeline body executes at any moment, across all
\* repositories and all SyncAll calls
OnePipelineAtATime ==
    Cardinality({g \in Callers \X repos : pc[g[1]][g[2]] \in Body}) <= 1

\* one pipeline runs while pipelines of both calls wait for the lock
OneRunsOthersWait ==
    /\ pc["timer"]["A"] = "zip"
    /\ pc["timer"]["B"] = "lock"
    /\ pc["admin"]["A"] = "lock"
    /\ pc["admin"]["B"] = "lock"

(* ------------------------------------------------------------------ *)
(* Properties of one pipeline                                           *)
(* ------------------------------------------------------------------ *)
\* syncRepo of caller k for repository r returns without error in this step
ReturnsOk(k, r) ==
    /\ pc[k][r] = "retain"
    /\ pc'[k][r] = "done"
    /\ res'[k][r] # "err"

\* the returning pipeline saw the commit and the tag of the last successful
\* sync, and no pipeline saw anything else in between
Resync(k, r) ==
    /\ ReturnsOk(k, r)
    /\ hist[r].last = [commit |-> loc[k][r].commitHash, tag |-> loc[k][r].tag]

ResyncStep ==
    \A k \in Callers, r \in repos :
        Resync(k, r) =>
            /\ ~loc[k][r].zipCreated
            /\ Len(dbVersions') = Len(dbVersions)
            /\ res'[k][r] = "unchanged"

\* C6: a sync that observes the commit and the tag of the last successful
\* sync writes no artifact file, inserts no row of versions and reports not
\* changed (so it causes no catalog bump)
ResyncIsNoOp == [][ResyncStep]_vars

\* the returning pipeline found tag T recorded on commit A and observed T on
\* another commit B
MovedTag(k, r) ==
    /\ ReturnsOk(k, r)
    /\ TagMoved(loc[k][r])

MovedTagStep ==
    \A k \in Callers, r \in repos :
        MovedTag(k, r) =>
            LET l == loc[k][r]
                rows == VersionIdsOf(dbVersions', l.repoID, l.tag)
            IN  /\ ZipFileName(r, l.latestCommitHash) \notin files'
                /\ ZipFileName(r, l.commitHash) \in files'
                /\ Cardinality(rows) = 1
                /\ \A i \in rows :
                      /\ dbVersions'[i].commitHash = l.commitHash
                      /\ dbVersions'[i].zipFile = ZipFileName(r, l.commitHash)
                      /\ dbVersions'[i].size = SizeOf(l.commitHash)

\* C7: when a sync that finds tag T recorded on commit A observes T on
\* commit B and succeeds, the file of A is gone, the file of B is there, and
\* one row of versions holds (repository, T) with B's commit, file and size
MovedTagReplaced == [][MovedTagStep]_vars

\* of the rows of versions of one repository exactly three are not deleted,
\* the file of every deleted one is gone, and no deleted one is newer than
\* one that is not
KeepsThree(vers, fs, repoId) ==
    LET rows == {i \in 1..Len(vers) : vers[i].repoId = repoId}
        live == UnDeleted(vers, repoId)
    IN  /\ Cardinality(live) = 3
        /\ \A i \in rows \ live : vers[i].zipFile \notin fs
        /\ \A i \in live, j \in rows \ live : vers[i].createdAt >= vers[j].createdAt

DistinctCommitsStep ==
    \A k \in Callers, r \in repos :
        (ReturnsOk(k, r) /\ hist'[r].n > 3 /\ hist'[r].distinctCommits) =>
            KeepsThree(dbVersions', files', loc[k][r].repoID)

DistinctTagsStep ==
    \A k \in Callers, r \in repos :
        (ReturnsOk(k, r) /\ hist'[r].n > 3 /\ hist'[r].distinct /\ hist'[r].clean) =>
            KeepsThree(dbVersions', files', loc[k][r].repoID)

Completes(k) ==
    /\ callPc[k] \in {"callback", "version", "insert", "store"}
    /\ callPc'[k] = "done"

CatalogVersionCachedStep ==
    /\ ~cache.hasPackages => GetPackageListVersion(cache) = "cache not initialized"
    /\ \A k \in Callers :
          Completes(k) =>
              /\ GetPackageListVersion(cache') = "ok"
              /\ cache'.version = LatestOrNone(plv')

\* C11: as long as no UpdateCache has stored anything, GET
\* /package-list-version answers "cache not initialized"; when a SyncAll call
\* that reported a change returns, the cached version is the latest version
\* in the store
CatalogVersionCached == [][CatalogVersionCachedStep]_vars

\* a GET of the read API is answered in this step
Answered == resp' # resp

SnapshotStep ==
    Answered =>
        /\ ARLockFree
        /\ ~(cache.hasPackages /\ cache.hasVersion /\ cache.torn)

\* C12: a GET is answered only while no UpdateCache is at work, and the
\* package documents and the version document it is answered from were stored
\* by the same UpdateCache
SnapshotFromOneRebuild == [][SnapshotStep]_vars

\* no UpdateCache has stored anything
NotInitialized(c) == ~c.hasPackages /\ ~c.hasVersion

ReadErrorsStep ==
    Answered =>
        /\ NotInitialized(cache) => resp'.status = "cache not initialized"
        /\ (/\ cache.hasVersion
            /\ resp'.op = "package"
            /\ dbRepos[resp'.name].id = 0) => resp'.status = "package not found"

\* C13: before any UpdateCache has stored anything, every GET (/packages,
\* /packages/{name}, /package-list-version) answers "cache not initialized";
\* after an UpdateCache, GET /packages/{name} for a name without a row of
\* repos answers "package not found"
ReadErrors == [][ReadErrorsStep]_vars

(* ------------------------------------------------------------------ *)
(* Properties of a pipeline that fails                                  *)
(* ------------------------------------------------------------------ *)
\* the pipeline of caller k for repository r takes the lock, or comes to the
\* end of its Source Mirror calls, in this step
MirrorStep(k, r) ==
    \/ pc[k][r] = "lock" /\ pc'[k][r] = "read"
    \/ pc[k][r] = "read" /\ pc'[k][r] \in {"zip", "done"}

MirrorFailureStep ==
    \A k \in Callers, r \in repos :
        /\ MirrorStep(k, r) => UNCHANGED <<dbRepos, dbVersions, files, plv>>
        /\ (pc[k][r] = "read" /\ pc'[k][r] = "done") => res'[k][r] = "err"

\* C14: a pipeline that fails in PullOrClone or GetLatestCommit returns the
\* error, and from its start to its return it writes no row of repos, no row
\* of versions, no zip file and no catalog version
MirrorFailureWritesNothing == [][MirrorFailureStep]_vars

\* the pipeline of a repository that has a row, a version and a zip file has
\* failed in the Source Mirror
FailedInMirror ==
    \E k \in Callers, r \in repos :
        /\ res[k][r] = "err"
        /\ hist[r].failed.at = "mirror"
        /\ dbRepos[r].id # 0
        /\ ZipFileName(r, dbRepos[r].commitHash) \in files
        /\ \E i \in 1..Len(dbVersions) : dbVersions[i].repoId = dbRepos[r].id

\* the pipeline of caller k for repository r follows a pipeline that failed
\* at stage (Stage) after it had observed the same commit
Retries(k, r, stage) == loc[k][r].after = stage

BuildFailureStep ==
    \A k \in Callers, r \in repos :
        /\ (pc[k][r] \in {"zip", "create"} /\ pc'[k][r] # pc[k][r]) =>
               UNCHANGED <<dbRepos, dbVersions>>
        /\ (pc[k][r] = "create" /\ pc'[k][r] = "done") => res'[k][r] = "err"
        /\ (Retries(k, r, "build") /\ pc[k][r] = "zip" /\ pc'[k][r] # "zip") =>
               pc'[k][r] \in {"create", "done"}
        /\ (Retries(k, r, "build") /\ ReturnsOk(k, r)) =>
               (loc[k][r].zipCreated /\ res'[k][r] = "changed")

\* C15: a pipeline in which CreateZip (or GetFileSize after it) fails returns
\* the error without a write to repos or versions; the next pipeline of the
\* repository, if it observes the same commit, calls CreateZip again and, when
\* it ends without error, has built the archive and reports a change
BuildFailureIsRetried == [][BuildFailureStep]_vars

StoreFailureStep ==
    \A k \in Callers, r \in repos :
        (Retries(k, r, "store") /\ ReturnsOk(k, r)) =>
            LET l == loc[k][r]
                rows == VersionIdsOf(dbVersions', l.repoID, l.tag)
            IN  /\ dbRepos'[r].commitHash = l.commitHash
                /\ dbRepos'[r].zipFile = ZipFileName(r, l.commitHash)
                /\ dbRepos'[r].tag = l.tag
                /\ Cardinality(rows) = 1
                /\ \A i \in rows :
                      /\ dbVersions'[i].commitHash = l.commitHash
                      /\ dbVersions'[i].zipFile = ZipFileName(r, l.commitHash)

\* C16: when a pipeline failed in UpsertRepo, AddVersion or retention after
\* the archive of commit c was there, and the next pipeline of the repository
\* observes c again and ends without error, the row of repos and the row of
\* versions of the observed tag both hold c and the archive of c
StoreFailureReconciled == [][StoreFailureStep]_vars

\* a pipeline has ended without error after the pipeline before it had
\* failed in a store call with the same commit observed
RetriedAfterStoreFailure ==
    \E k \in Callers, r \in repos :
        /\ pc[k][r] = "done"
        /\ res[k][r] \in {"changed", "unchanged"}
        /\ loc[k][r].after = "store"
        /\ dbRepos[r].commitHash = workdir[r].commit
        /\ \E i \in 1..Len(dbVersions) :
              /\ dbVersions[i].repoId = dbRepos[r].id
              /\ dbVersions[i].tag = dbRepos[r].tag
              /\ dbVersions[i].commitHash = dbRepos[r].commitHash

(* ------------------------------------------------------------------ *)
(* Properties of the catalog version                                    *)
(* ------------------------------------------------------------------ *)
LazyInitStep ==
    \A k \in Callers :
        /\ (callPc[k] = "insert" /\ callPc'[k] = "store") =>
               (ver[k] = 1 /\ plv' = <<1>>)
        /\ (callPc[k] = "version" /\ callPc'[k] = "store") =>
               (plv' = plv /\ ver'[k] = LatestOrNone(plv))
        /\ (callPc[k] = "bump" /\ plv = <<1>> /\ plv' # plv) => plv' = <<1, 2>>

\* C17: GetLatestPackageListVersion on a table without a row returns 1 and
\* leaves the one row of version 1; the next IncrementPackageListVersion
\* inserts version 2; GetLatestPackageListVersion on a table with rows returns
\* the latest and inserts nothing
LazyInitIsFirstBump == [][LazyInitStep]_vars

\* the timer's SyncAll call has returned nil
TimerReturnedNil == callPc["timer"] = "done" /\ ret["timer"] = "nil"

\* C18: with the one repository A and no history, once the first sync has
\* returned the latest catalog version is 1, and so it is after a sync that
\* found nothing new; once a sync has returned that found the tag of the first
\* sync moved from the first commit to a second, the latest version is 2, the
\* zip file of the first commit is gone and that of the second is there
ExampleRun ==
    TimerReturnedNil =>
        /\ hist["A"].n = 1 => LatestOrNone(plv) = 1
        /\ (/\ hist["A"].n = 2
            /\ hist["A"].commits = {Hash(1), Hash(2)}
            /\ hist["A"].tags = {1}) =>
               /\ LatestOrNone(plv) = 2
               /\ ZipFileName("A", Hash(1)) \notin files
               /\ ZipFileName("A", Hash(2)) \in files

(* ------------------------------------------------------------------ *)
(* Properties of the lock                                               *)
(* ------------------------------------------------------------------ *)
\* PullOrClone or GetLatestCommit of the pipeline is in progress
InMirror(k, r) == pc[k][r] = "read"

\* the pipeline is between its first and its last store write
Writing == {"upsert", "addver", "retain"}

\* at most one pipeline is in its store-writing phase
OneWriterAtATime ==
    Cardinality({g \in Callers \X repos : pc[g[1]][g[2]] \in Writing}) <= 1

Built(j, r, c) ==
    \/ loc[j][r].zipCreated /\ loc[j][r].commitHash = c
    \/ loc[j][r].built = c /\ callPc[j] = "wait"

BuildStep ==
    \A k \in Callers, r \in repos :
        (pc[k][r] = "create" /\ pc'[k][r] # "create") =>
            /\ ZipFileName(r, loc[k][r].commitHash) \notin files
            /\ \A j \in Callers \ {k} :
                  Built(j, r, loc[k][r].commitHash) =>
                      ZipFileName(r, loc[k][r].commitHash) \notin files

\* C20: under any interleaving of SyncAll calls, CreateZip is called for a
\* repository and a commit only while the zip file of that commit is not on
\* disk; a pipeline that overlaps one that built the file does not build it
\* again while the file is there
BuildsOncePerCommit == [][BuildStep]_vars

\* a pipeline has found the zip file that the pipeline of an overlapping call
\* has built, and goes on without building
ReusedOverlappingBuild ==
    \E k \in Callers, j \in Callers :
        /\ j # k
        /\ callPc[j] = "wait"
        /\ loc[j]["A"].built # NoHash
        /\ pc[k]["A"] = "upsert"
        /\ loc[k]["A"].commitHash = loc[j]["A"].built
        /\ ~loc[k]["A"].zipCreated

(* ------------------------------------------------------------------ *)
(* Properties of the on-demand trigger                                  *)
(* ------------------------------------------------------------------ *)
\* triggerSync has run: the goroutine that will call SyncAll exists
Triggered == callPc["admin"] # "spawned" /\ callPc'["admin"] = "spawned"

TriggerStep ==
    /\ Triggered =>
          /\ trig' = "accepted"
          /\ pc'["admin"] = pc["admin"]
          /\ ret'["admin"] = ret["admin"]
    /\ trig = "accepted" => trig' = "accepted"

\* C21: the answer to an on-demand trigger is "accepted", given when the
\* SyncAll it asks for has not started, and nothing that SyncAll does later,
\* whether it returns nil or an error, changes the answer
TriggerAcceptedAtOnce == [][TriggerStep]_vars

\* the SyncAll of a trigger that was answered "accepted" has returned an error
TriggeredSyncFailed ==
    /\ trig = "accepted"
    /\ callPc["admin"] = "done"
    /\ ret["admin"] = "err"

(* ------------------------------------------------------------------ *)
(* Properties of the Source Mirror calls                                *)
(* ------------------------------------------------------------------ *)
\* the last pipeline of repository r to return failed in its Source Mirror
\* calls with nothing cloned yet: PullOrClone is what failed
PullFailed(r) == hist[r].failed.at = "mirror" /\ workdir[r] = NoHead

\* C22: a pipeline reports the failure of its pull only after it has tried
\* again three times, four calls of PullOrClone in all
PullRetriedThreeTimes ==
    \A r \in repos : PullFailed(r) => hist[r].failed.pulls = 4

(* ------------------------------------------------------------------ *)
(* Properties of the result of a pipeline                               *)
(* ------------------------------------------------------------------ *)
\* syncRepo of caller k for repository r returns in this step
Returns(k, r) == pc[k][r] \in Body /\ pc'[k][r] = "done"

ReportStep ==
    \A k \in Callers, r \in repos :
        Returns(k, r) =>
            /\ res'[k][r] = "changed" <=>
                  /\ res'[k][r] # "err"
                  /\ \/ loc[k][r].zipCreated
                     \/ loc[k][r].tag # loc[k][r].recorded.tag
            /\ res'[k][r] = "err" => hasChanges'[k] = hasChanges[k]

\* C23: a pipeline that returns without error reports a change exactly when
\* it has built the zip file or the tag it observed is not the tag the row of
\* repos held when it started (the empty tag for no row); a pipeline that
\* returns an error reports no change
ReportsChangeExactly == [][ReportStep]_vars

(* ------------------------------------------------------------------ *)
(* Properties of the removal of zip files                               *)
(* ------------------------------------------------------------------ *)
\* the zip files of the rows of versions this step marks deleted
Retired ==
    {dbVersions[i].zipFile :
        i \in {j \in 1..Len(dbVersions) : ~dbVersions[j].deleted /\ dbVersions'[j].deleted}}

\* the tag the pipeline observed is the one the row of repos held when it
\* started, and the commit is another one
Moved(l) ==
    /\ l.recorded.tag = l.tag
    /\ l.recorded.commit \notin {NoHash, l.commitHash}

EagerStep ==
    \A k \in Callers, r \in repos :
        (pc[k][r] = "retain" /\ pc'[k][r] = "done" /\ faults' = faults) =>
            LET l   == loc[k][r]
                old == ZipFileName(r, l.recorded.commit)
            IN  /\ Moved(l) => old \notin files'
                /\ (~Moved(l) /\ old \in files) => (old \in files' \/ old \in Retired)

\* C24: when no removal and no store call of the step fails, the zip file of
\* the commit recorded before is removed ahead of retention exactly when the
\* recorded tag is the observed one and the recorded commit is not; otherwise
\* the file stays unless retention retires a row that names it
EagerDeletionExactlyOnMovedTag == [][EagerStep]_vars

\* the rows GetOlderThan3LatestUnDeletedVersions returns are the one row with
\* the empty tag
OnlyPlaceholder(vers, versions) ==
    Len(versions) = 1 /\ vers[versions[1]].tag = NoTag

RetentionStep ==
    \A k \in Callers, r \in repos :
        (pc[k][r] = "retain" /\ pc'[k][r] = "done" /\ faults' = faults) =>
            \E versions \in GetOlderThan3LatestUnDeletedVersions(dbVersions, loc[k][r].repoID) :
                IF OnlyPlaceholder(dbVersions, versions)
                THEN /\ dbVersions' = dbVersions
                     /\ LET zip == dbVersions[versions[1]].zipFile
                        IN  (zip \in files /\ zip \notin EagerDelete(r, loc[k][r])) =>
                                zip \in files'
                ELSE \A i \in 1..Len(versions) :
                        /\ dbVersions'[versions[i]].deleted
                        /\ dbVersions[versions[i]].zipFile \notin files'

\* C25: when no removal and no store call of the retention step fails: if the
\* rows older than the three latest are exactly one row with the empty tag,
\* the row is left as it is and retention leaves its file (the eager removal
\* of lines 196-201 may take it, when it is the file of the commit recorded
\* before); in every other
\* case each of those rows, a row with the empty tag included, is marked
\* deleted and its file is gone
PlaceholderExempt == [][RetentionStep]_vars

\* a pipeline has returned and left four live rows, the oldest the row with
\* the empty tag
KeptPlaceholder ==
    /\ pc["timer"]["A"] = "done"
    /\ res["timer"]["A"] \in {"changed", "unchanged"}
    /\ Cardinality(UnDeleted(dbVersions, dbRepos["A"].id)) = 4
    /\ \E i \in UnDeleted(dbVersions, dbRepos["A"].id) :
          /\ dbVersions[i].tag = NoTag
          /\ \A j \in UnDeleted(dbVersions, dbRepos["A"].id) \ {i} :
                dbVersions[j].createdAt > dbVersions[i].createdAt

\* the rows of versions this step marks deleted
Marked ==
    {j \in 1..Len(dbVersions) : ~dbVersions[j].deleted /\ dbVersions'[j].deleted}

RetireStep ==
    \A k \in Callers, r \in repos :
        (pc[k][r] = "retain" /\ pc'[k][r] = "done") =>
            LET failed == IF res'[k][r] = "err" THEN 1 ELSE 0
            IN  /\ Cardinality({dbVersions[i].zipFile : i \in Marked} \cap files')
                      <= faults - faults' - failed
                /\ \E versions \in GetOlderThan3LatestUnDeletedVersions(dbVersions, loc[k][r].repoID) :
                      (Len(versions) > 0 /\ ~OnlyPlaceholder(dbVersions, versions)) =>
                          (res'[k][r] = "err" <=>
                              \E i \in 1..Len(versions) : ~dbVersions'[versions[i]].deleted)

\* C26: a row is marked deleted only after the removal of its file: the file
\* of a row the step marks is gone unless its removal failed; and a file that
\* is missing or cannot be removed does not stop the pipeline: it returns an
\* error only when a store call failed, which leaves a row to retire unmarked,
\* and when it returns without error every row to retire is marked
FileFirstThenRow == [][RetireStep]_vars

\* a pipeline has returned without error and has marked a row deleted whose
\* file, named by no other row, could not be removed
MarkedThoughFileStays ==
    /\ pc["timer"]["A"] = "done"
    /\ res["timer"]["A"] \in {"changed", "unchanged"}
    /\ faults = 0
    /\ \E i \in 1..Len(dbVersions) :
          /\ dbVersions[i].deleted
          /\ dbVersions[i].zipFile \in files
          /\ \A j \in 1..Len(dbVersions) :
                j # i => dbVersions[j].zipFile # dbVersions[i].zipFile

(* ------------------------------------------------------------------ *)
(* Properties of the store operations                                   *)
(* ------------------------------------------------------------------ *)
\* no two rows of versions have the same (repo_id, tag)
UniqueVersions(vers) ==
    \A i \in 1..Len(vers), j \in 1..Len(vers) :
        (vers[i].repoId = vers[j].repoId /\ vers[i].tag = vers[j].tag) => i = j

AddVersionStep ==
    /\ UniqueVersions(dbVersions')
    /\ \A k \in Callers, r \in repos :
          (pc[k][r] = "addver" /\ pc'[k][r] = "retain") =>
              LET l     == loc[k][r]
                  zip   == ZipFileName(r, l.commitHash)
                  ids   == VersionIdsOf(dbVersions, l.repoID, l.tag)
                  again == AddVersion(dbVersions', l.repoID, l.tag, l.commitHash,
                                      zip, l.size, l.lastSync)
              IN  /\ again = dbVersions'
                  /\ AddVersionId(dbVersions', l.repoID, l.tag)
                        = AddVersionId(dbVersions, l.repoID, l.tag)
                  /\ \A i \in ids :
                        /\ Len(dbVersions') = Len(dbVersions)
                        /\ AddVersionId(dbVersions, l.repoID, l.tag) = i
                        /\ dbVersions'[i].id = dbVersions[i].id
                        /\ dbVersions'[i].commitHash = l.commitHash
                        /\ dbVersions'[i].zipFile = zip
                        /\ dbVersions'[i].size = l.size
                        /\ \A j \in 1..Len(dbVersions) :
                              j # i => dbVersions'[j] = dbVersions[j]

\* C27: the rows of versions never hold one (repo_id, tag) twice; AddVersion
\* for a (repo_id, tag) that has a row puts the commit, the file and the size
\* into that row, adds none, changes no other and returns the id of that
\* row; and AddVersion once more with the same values changes nothing and
\* returns the same id
OneRowPerTag == [][AddVersionStep]_vars

\* AddVersion has put another commit into the row of a tag
OverwroteRow ==
    \E k \in Callers :
        /\ pc[k]["A"] = "retain"
        /\ Len(dbVersions) = loc[k]["A"].versionsBefore
        /\ loc[k]["A"].recorded.tag = loc[k]["A"].tag
        /\ loc[k]["A"].recorded.commit \notin {NoHash, loc[k]["A"].commitHash}
        /\ \E i \in VersionIdsOf(dbVersions, loc[k]["A"].repoID, loc[k]["A"].tag) :
              dbVersions[i].commitHash = loc[k]["A"].commitHash

\* the live rows of a repository that at least three live rows of it come
\* before, by created_at descending and, among equal created_at, by row id
\* (descending when down, ascending otherwise)
OlderThanThree(vers, repoId, down) ==
    LET live == UnDeleted(vers, repoId)
        Before(j, i) ==
            \/ vers[j].createdAt > vers[i].createdAt
            \/ /\ vers[j].createdAt = vers[i].createdAt
               /\ IF down THEN j > i ELSE j < i
    IN  {i \in live : Cardinality({j \in live : Before(j, i)}) >= 3}

\* whatever GetOlderThan3LatestUnDeletedVersions returns for the repository
\* is the rows of S, each once
ReturnsExactly(vers, repoId, S) ==
    \A versions \in GetOlderThan3LatestUnDeletedVersions(vers, repoId) :
        /\ {versions[i] : i \in 1..Len(versions)} = S
        /\ Len(versions) = Cardinality(S)

\* C28: for every repository with a row, GetOlderThan3LatestUnDeletedVersions
\* returns exactly its live rows other than the three most recent by
\* created_at, rows of equal created_at taken in the order of their ids (in
\* one direction or the other): no deleted row, no row of another repository,
\* none of the three most recent, and nothing when three or fewer are live
CandidatesExact ==
    \A r \in repos :
        dbRepos[r].id # 0 =>
            \/ ReturnsExactly(dbVersions, dbRepos[r].id,
                              OlderThanThree(dbVersions, dbRepos[r].id, TRUE))
            \/ ReturnsExactly(dbVersions, dbRepos[r].id,
                              OlderThanThree(dbVersions, dbRepos[r].id, FALSE))

\* C29: a SyncAll call that has invoked the callback had incremented the
\* catalog version before and had a pipeline that reported a change: no
\* callback after a failed increment, none in a call with nothing changed
CallbackOnlyAfterBump ==
    \A k \in Callers :
        cbs[k] > 0 => (bumps[k] = 1 /\ hasChanges[k])

\* the pipeline of k for r fails in AddVersion or in the retention step
FailsLate(k, r) ==
    /\ pc[k][r] \in {"addver", "retain"}
    /\ pc'[k][r] = "done"
    /\ res'[k][r] = "err"

\* a row of versions is what it was, or is that row marked deleted
KeptOrMarked(old, new) == new = old \/ new = [old EXCEPT !.deleted = TRUE]

NoRollbackStep ==
    \A k \in Callers, r \in repos :
        FailsLate(k, r) =>
            LET l == loc[k][r]
            IN  /\ errChan'[k] = Append(errChan[k], r)
                /\ hasChanges'[k] = hasChanges[k]
                /\ dbRepos' = dbRepos
                /\ dbRepos[r].id = l.repoID
                /\ dbRepos[r].commitHash = l.commitHash
                /\ dbRepos[r].tag = l.tag
                /\ Len(dbVersions') = Len(dbVersions)
                /\ \A i \in 1..Len(dbVersions) :
                      KeptOrMarked(dbVersions[i], dbVersions'[i])
                /\ pc[k][r] = "addver" => dbVersions' = dbVersions
                /\ pc[k][r] = "retain" =>
                      \E i \in VersionIdsOf(dbVersions', l.repoID, l.tag) :
                          dbVersions'[i].commitHash = l.commitHash
                /\ files' \subseteq files

RebuildFails(k) ==
    /\ callPc[k] \in {"callback", "version", "insert"}
    /\ callPc'[k] = "done"

\* the UpdateCache of caller k returns nil
RebuildSucceeds(k) ==
    /\ callPc[k] = "store"
    /\ callPc'[k] = "done"

\* the names of the per-package documents and of the packages listed
Covered(c) == {e.name : e \in c.packageInfo}

Listed(c) == {c.packages[i].name : i \in 1..Len(c.packages)}

WholesaleStep ==
    \A k \in Callers :
        /\ RebuildFails(k) =>
              Docs(cache') = IF callPc[k] = "callback" THEN Docs(cache)
                             ELSE cache.before
        /\ RebuildSucceeds(k) => Covered(cache') = Listed(cache')

\* C31: an UpdateCache that returns an error leaves the three documents of
\* the cache as they were when it began, and one that returns nil leaves
\* per-package documents for exactly the repositories of the package list
RebuildIsWholesale == [][WholesaleStep]_vars

\* the pipeline of caller k for repository r takes a step
PipelineStep(k, r) == pc'[k][r] # pc[k][r] /\ pc[k][r] # "idle"

\* the artifact files named after repository n
FilesOf(fs, n) == {f \in fs : f[1] = n}

\* the rows of versions of the repository with this id, by position
RowsOf(vers, repoId) == {i \in 1..Len(vers) : vers[i].repoId = repoId}

FrameStep ==
    \A k \in Callers, r \in repos :
        PipelineStep(k, r) =>
            /\ \A o \in RepoNames \ {r} :
                  /\ dbRepos'[o] = dbRepos[o]
                  /\ workdir'[o] = workdir[o]
                  /\ FilesOf(files', o) = FilesOf(files, o)
                  /\ dbRepos[o].id # 0 =>
                        /\ RowsOf(dbVersions', dbRepos[o].id) = RowsOf(dbVersions, dbRepos[o].id)
                        /\ \A i \in RowsOf(dbVersions, dbRepos[o].id) :
                              dbVersions'[i] = dbVersions[i]
            /\ \A i \in 1..Len(dbVersions') :
                  (i > Len(dbVersions) \/ dbVersions'[i] # dbVersions[i]) =>
                      /\ dbVersions'[i].repoId = dbRepos'[r].id
                      /\ dbVersions'[i].zipFile[1] = r
            /\ dbRepos'[r].id # 0 => dbRepos'[r].zipFile[1] = r

ZipFileNamesCommit ==
    /\ \A r \in RepoNames :
          dbRepos[r].id # 0 =>
              dbRepos[r].zipFile = ZipFileName(r, dbRepos[r].commitHash)
    /\ \A i \in 1..Len(dbVersions) :
          \E r \in RepoNames :
              /\ dbRepos[r].id = dbVersions[i].repoId
              /\ dbVersions[i].zipFile = ZipFileName(r, dbVersions[i].commitHash)

\* the one row of versions has been overwritten with a later commit under
\* the same tag
RowRenamedWithCommit ==
    /\ Len(dbVersions) = 1
    /\ hist["A"].n >= 2
    /\ dbVersions[1].commitHash # NoHash
    /\ dbRepos["A"].commitHash = dbVersions[1].commitHash

\* no pipeline is at work and none has failed so far
AllCompleted ==
    /\ \A k \in Callers, r \in repos : pc[k][r] \in {"idle", "done"}
    /\ \A k \in Callers, r \in repos : res[k][r] # "err"
    /\ \A r \in repos : hist[r].clean

\* C34: once the pipelines run so far have all completed without error,
\* the file named by every row of versions that is not marked deleted is on
\* disk
LiveRowsHaveFiles ==
    AllCompleted =>
        \A i \in 1..Len(dbVersions) :
            ~dbVersions[i].deleted => dbVersions[i].zipFile \in files

\* the UpdateCache of caller k stores the package documents it has built
\* from the store
StoresPackages(k) == callPc[k] = "callback" /\ callPc'[k] = "version"

PublishedStep ==
    \A k \in Callers :
        StoresPackages(k) =>
            \A i \in 1..Len(cache'.packages) :
                \A j \in 1..Len(cache'.packages[i].versions) :
                    \E n \in VersionIdsOf(dbVersions,
                                          dbRepos[cache'.packages[i].name].id,
                                          cache'.packages[i].versions[j].tag) :
                        ~dbVersions[n].deleted

\* C35: the version lists a rebuild stores in the cache hold only versions
\* whose row of versions is not marked deleted
PublishesOnlyLiveVersions == [][PublishedStep]_vars

\* C36: once the pipelines run so far have all completed without error, no
\* row of versions marked deleted names a file that is on disk: the row of a
\* retired tag that is packaged again is not marked deleted any more
DeletedRowsHaveNoFiles ==
    AllCompleted =>
        \A i \in 1..Len(dbVersions) :
            dbVersions[i].deleted => dbVersions[i].zipFile \notin files

\* no SyncAll call is in progress
NoSyncInProgress == \A k \in Callers : callPc[k] \in {"idle", "done"}

\* the package list the cache holds is one UpdateCache would build from the
\* store as it is now
CacheIsProjection ==
    /\ cache.hasPackages
    /\ cache.packages \in BuildPackages(dbRepos, dbVersions, GetAllRepos(dbRepos))

\* C37: when a SyncAll call has returned nil and no SyncAll call is in
\* progress, the cached package list is the projection of the store: every
\* committed change, also one committed by an earlier call that returned an
\* error or by a retry after a store failure, has reached the cache
NoCommittedChangeLost ==
    (NoSyncInProgress /\ \E k \in Callers : ret[k] = "nil") => CacheIsProjection

\* the UpdateCache called by the callback of caller k is in progress
InRebuild(k) == callPc[k] \in {"version", "insert", "store"}

\* C38: while the UpdateCache of a callback is in progress its caller holds
\* the read lock of the service and no pipeline, of any repository and of any
\* SyncAll call, is in its body: the rows a rebuild reads are not those of a
\* pipeline whose AddVersion or retention is still to come
RebuildExcludesPipelines ==
    \A k \in Callers :
        InRebuild(k) =>
            /\ k \in mu.readers
            /\ mu.writer = NoOne
            /\ \A j \in Callers, r \in repos : pc[j][r] \notin Body

\* a rebuild is in progress while a pipeline of the other SyncAll call waits
\* for the lock
RebuildWhilePipelineWaits ==
    \E k \in Callers, j \in Callers :
        /\ j # k
        /\ callPc[k] = "store"
        /\ pc[j]["A"] = "lock"

ConfigErrorStopsStartup ==
    (boot.phase # "start" /\ (~boot.file.readable \/ boot.file.parse # "ok")) =>
        /\ boot.err # "nil"
        /\ boot.phase # "running"

====
